---------------------------- MODULE Spec2Model ----------------------------
(***************************************************************************)
(* AdSnap Studio (src/app.py, src/services): the actions of one           *)
(* Streamlit session against the generation backend, and the asynchronous  *)
(* job submission / polling protocol.                                      *)
(*                                                                         *)
(* A Streamlit script runs main() from top to bottom once per user         *)
(* interaction; st.session_state survives between runs, every other        *)
(* value is recomputed.  A st.button(...) call returns True only in the    *)
(* run that its click triggered.                                           *)
(***************************************************************************)
EXTENDS Integers, Sequences, FiniteSets, TLC

(***************************************************************************)
(* Bounds of the model.                                                    *)
(***************************************************************************)
\* Result locations the backend can hand out: URLs are 1..MaxUrls.
MaxUrls == 3

URL == 1..MaxUrls

\* st.session_state.edited_image = None
None == 0

\* auto_check_images: max_attempts = 3
max_attempts == 3

\* st.slider("Number of Results", 1, 8, 4) of the lifestyle form
LifestyleMaxResults == 8

\* st.slider("Number of variations", 1, 4, 1) of the generative fill form
FillMaxResults == 4

\* What requests.head(url) does: a 200 response, a response with any other
\* status, or an exception (network error).
HeadOutcome == {"200", "other", "exception"}

Range(s) == {s[i] : i \in DOMAIN s}

\* The "urls" list of an asynchronous response: distinct result locations,
\* named by the backend in increasing order.
UrlLists ==
    {s \in UNION {[1..n -> URL] : n \in 0..MaxUrls} :
        \A i \in DOMAIN s : \A j \in DOMAIN s : i < j => s[i] < s[j]}

\* Python's list[:n]
Take(s, n) == SubSeq(s, 1, IF n < Len(s) THEN n ELSE Len(s))

VARIABLES
    pending_urls,      \* st.session_state.pending_urls
    edited_image,      \* st.session_state.edited_image
    generated_images,  \* st.session_state.generated_images
    pc,                \* where the running script is: "idle" (run ended,
                       \* waiting for the user) or "auto" (inside the
                       \* while loop of auto_check_images)
    attempt,           \* auto_check_images: attempt
    ready_images,      \* check_generated_images: ready_images of the last pass
    polled,            \* the URLs registered by the last submission (urls)
    passes,            \* polling passes made since the last submission
    last_pass,         \* what requests.head answered, per URL probed, in the
                       \* last polling pass since the last submission
    recovered,         \* URLs whose HEAD raised in the pass before the last
                       \* one and answered 200 in the last one
    ok_first,          \* URLs that answered 200 on their first HEAD
    ok_later,          \* URLs that answered 200 on a later HEAD
    sleeps,            \* time.sleep(2) calls of the current auto_check_images
    auto_result,       \* what the last auto_check_images returned
    refresh_rendered,  \* the "Check for Generated Images" button is on the page
    raised,            \* an exception left check_generated_images
    api_key,           \* st.session_state.api_key
    enhanced_prompt,   \* st.session_state.enhanced_prompt
    messages,          \* what the last run showed: st.error / st.warning /
                       \* st.success / st.info calls, as <<level, about>>
    api_calls,         \* requests the last run sent to the generation backend
    last_answer,       \* how the backend answered the last run's request
    client_calls,      \* calls of API client functions the last run made
    request,           \* the form and the backend's answer of the run under
                       \* study (NoRequest where none is singled out)
    handled,           \* the handler has run on request
    environ,           \* os.environ: BRIA_API_KEY, Fal.ai_LTX_API_KEY (LTX),
                       \* GOOGLE_API_KEY, FAL_KEY
    fal_api_key,       \* st.session_state.fal_api_key
    google_api_key,    \* st.session_state.google_api_key
    credential,        \* the backend and the key of the last run's client
                       \* call
    video_requests,    \* st.session_state.video_requests
    original_prompt,   \* st.session_state.original_prompt
    enhanced_of,       \* the prompt enhance_prompt was called with when
                       \* enhanced_prompt was last assigned
    exposed,           \* what the last run displayed as the enhanced prompt
                       \* or sent to generation in its place
    fal_keys,          \* st.session_state.fal_api_key of each session of a
                       \* server process that runs several
    fal_calls          \* the video client call each of these sessions is
                       \* in, or made last

vars == <<pending_urls, edited_image, generated_images, pc, attempt,
          ready_images, polled, passes, last_pass, recovered, ok_first,
          ok_later, sleeps, auto_result, refresh_rendered, raised,
          api_key, enhanced_prompt, messages, api_calls, last_answer,
          client_calls, request, handled, environ, fal_api_key,
          google_api_key, credential, video_requests, original_prompt,
          enhanced_of, exposed, fal_keys, fal_calls>>

\* What the model records of the last run.
run == <<messages, api_calls, last_answer, client_calls>>

\* The run under study.
drawn == <<request, handled>>

\* The keys of the video backends and what was submitted to them.
video == <<environ, fal_api_key, google_api_key, credential, video_requests>>

\* The prompt of the Generate Image tab and what was made of it.
prompts == <<original_prompt, enhanced_of, exposed>>

\* The sessions of a server process that runs several.
process == <<fal_keys, fal_calls>>

\* What the model records of the requests.head calls.
probes == <<polled, passes, last_pass, recovered, ok_first, ok_later>>

(***************************************************************************)
(* check_generated_images (src/app.py 157-184)                             *)
(***************************************************************************)

\* Probe without the status test: any response counts as ready.
Probe_AnyResponseReady(url, outcome, acc) ==
    IF outcome = "exception"
    THEN [acc EXCEPT !.still = Append(@, url)]
    ELSE [acc EXCEPT !.ready = Append(@, url)]

\* Probe without the try/except: the exception of requests.head leaves
\* the loop.
Probe_ExceptionPropagates(url, outcome, acc) ==
    IF outcome = "exception"
    THEN [acc EXCEPT !.exc = TRUE]
    ELSE IF outcome = "200"
         THEN [acc EXCEPT !.ready = Append(@, url)]
         ELSE [acc EXCEPT !.still = Append(@, url)]

\* Probe whose else branch forgets still_pending.append(url).
Probe_DropsNon200(url, outcome, acc) ==
    IF outcome = "exception"
    THEN [acc EXCEPT !.still = Append(@, url)]
    ELSE IF outcome = "200"
         THEN [acc EXCEPT !.ready = Append(@, url)]
         ELSE acc

\* Probe whose except block is "pass".
Probe_DropsOnException(url, outcome, acc) ==
    IF outcome = "exception"
    THEN acc
    ELSE IF outcome = "200"
         THEN [acc EXCEPT !.ready = Append(@, url)]
         ELSE [acc EXCEPT !.still = Append(@, url)]

\* One iteration of "for url in st.session_state.pending_urls": the try
\* block appends to ready_images on status 200 and to still_pending on any
\* other status; the except block appends to still_pending.
Probe(url, outcome, acc) ==
    IF outcome = "exception"
    THEN [acc EXCEPT !.still = Append(@, url)]
    ELSE IF outcome = "200"
         THEN [acc EXCEPT !.ready = Append(@, url)]
         ELSE [acc EXCEPT !.still = Append(@, url)]

\* The for loop: every pending URL is probed, in list order.
RECURSIVE ProbeAll(_, _, _)
ProbeAll(urls, outcomes, acc) ==
    IF urls = <<>> \/ acc.exc
    THEN acc
    ELSE ProbeAll(Tail(urls), outcomes,
                  Probe(Head(urls), outcomes[Head(urls)], acc))

\* edited_image = ready_images[-1]
NewEditedImage_Last(ready, old) ==
    IF ready # <<>> THEN ready[Len(ready)] ELSE old

\* st.session_state.edited_image = ready_images[0]
NewEditedImage(ready, old) ==
    IF ready # <<>> THEN ready[1] ELSE old

\* The pass without the assignment of generated_images.
NewGeneratedImages_Kept(ready, old) == old

\* if len(ready_images) > 1: st.session_state.generated_images = ready_images
NewGeneratedImages(ready, old) ==
    IF Len(ready) > 1 THEN ready ELSE old

\* The two lists the for loop builds from the pending list.
PassResult(pending, outcomes) ==
    ProbeAll(pending, outcomes,
             [ready |-> <<>>, still |-> <<>>, exc |-> FALSE])

\* A function that returns True only when no URL is left pending.
CheckReturns_WhenAllReady(pending, outcomes) ==
    /\ pending # <<>>
    /\ ~PassResult(pending, outcomes).exc
    /\ PassResult(pending, outcomes).still = <<>>

\* The return value of the function: True when the pass found a ready URL.
CheckReturns(pending, outcomes) ==
    /\ pending # <<>>
    /\ ~PassResult(pending, outcomes).exc
    /\ PassResult(pending, outcomes).ready # <<>>

\* The whole function, given what requests.head answers for each pending
\* URL.
CheckGeneratedImages(outcomes) ==
    IF pending_urls # <<>>
    THEN LET r == PassResult(pending_urls, outcomes)
         IN  IF r.exc
             THEN /\ raised' = TRUE
                  /\ UNCHANGED <<pending_urls, edited_image, generated_images,
                                 ready_images>>
             ELSE /\ pending_urls' = r.still
                  /\ ready_images' = r.ready
                  /\ edited_image' = NewEditedImage(r.ready, edited_image)
                  /\ generated_images' =
                        IF r.ready # <<>>
                        THEN NewGeneratedImages(r.ready, generated_images)
                        ELSE generated_images
                  /\ UNCHANGED raised
    ELSE UNCHANGED <<pending_urls, edited_image, generated_images,
                     ready_images, raised>>

(***************************************************************************)
(* auto_check_images (src/app.py 186-196)                                  *)
(***************************************************************************)

\* while attempt <= max_attempts and ...
LoopContinues_OffByOne(att, pending) == att <= max_attempts /\ pending # <<>>

\* while attempt < max_attempts and st.session_state.pending_urls:
LoopContinues(att, pending) == att < max_attempts /\ pending # <<>>

\* attempt += 1
NextAttempt(att) == att + 1

\* The requests.head answers of one polling pass.
RecordPass(outcomes) ==
    LET ok == {u \in DOMAIN outcomes : outcomes[u] = "200"}
    IN  /\ passes' = passes + 1
        /\ recovered' = {u \in ok : /\ u \in DOMAIN last_pass
                                    /\ last_pass[u] = "exception"}
        /\ last_pass' = outcomes
        /\ ok_first' = IF passes = 0 THEN ok ELSE ok_first
        /\ ok_later' = IF passes = 0 THEN {} ELSE ok_later \cup ok
        /\ UNCHANGED polled

\* One iteration of the while loop: sleep, one polling pass, then either
\* "return True" (the caller reruns the script, which ends the run) or
\* attempt += 1.
AutoAttempt ==
    /\ pc = "auto"
    /\ ~raised
    /\ LoopContinues(attempt, pending_urls)
    /\ sleeps' = sleeps + 1
    /\ \E outcomes \in [Range(pending_urls) -> HeadOutcome] :
         /\ CheckGeneratedImages(outcomes)
         /\ RecordPass(outcomes)
         /\ IF CheckReturns(pending_urls, outcomes)
            THEN /\ pc' = "idle"
                 /\ auto_result' = "True"
                 /\ messages' = {<<"success", "image_ready">>}
                 /\ UNCHANGED attempt
            ELSE /\ attempt' = NextAttempt(attempt)
                 /\ UNCHANGED <<pc, auto_result, messages>>
    /\ UNCHANGED <<refresh_rendered, api_key, enhanced_prompt, api_calls,
                   last_answer, client_calls, drawn, video, prompts, process>>

\* The loop condition fails: "return False".  The caller then renders the
\* refresh button (st.button returns False: it was not clicked in this run)
\* and the run ends.
AutoExit ==
    /\ pc = "auto"
    /\ ~raised
    /\ ~LoopContinues(attempt, pending_urls)
    /\ pc' = "idle"
    /\ auto_result' = "False"
    /\ refresh_rendered' = TRUE
    /\ UNCHANGED <<pending_urls, edited_image, generated_images, attempt,
                   ready_images, probes, sleeps, raised, api_key,
                   enhanced_prompt, run, drawn, video, prompts, process>>

(***************************************************************************)
(* The generation backend and its clients                                  *)
(***************************************************************************)

\* os.getenv('BRIA_API_KEY') when the variable is not set
NoKey == "no key"

\* A key of the generation backend
BriaKey == "bria key"

\* How the backend answers a request: 200 with a payload, 422 (content
\* moderation), another error status, or no answer (transport failure).
Answers == {"ok", "http_422", "http_error", "transport_error"}

\* The keys the handlers look for in a response.
RespKeys == {"result_url", "result_urls", "urls", "result"}

\* One element of the "result" list of a response: a dict (with or without
\* "urls"), a list of URLs, or something else.
Item(type, has_urls, urls) ==
    [type |-> type, has_urls |-> has_urls, urls |-> urls]

\* A response: falsy (None, {}), a non-empty dict, or another truthy value.
Resp(type, keys, result_url, result_urls, urls, result_is_list, result) ==
    [type |-> type, keys |-> keys, result_url |-> result_url,
     result_urls |-> result_urls, urls |-> urls,
     result_is_list |-> result_is_list, result |-> result]

\* {"urls": urls}
UrlsResp(urls) == Resp("dict", {"urls"}, None, <<>>, urls, FALSE, <<>>)

\* The payloads the backend answers with: nothing, a value that is not a
\* dict, a dict with none of the keys, and a dict with one of them.
OpsResponses ==
    {Resp("falsy", {}, None, <<>>, <<>>, FALSE, <<>>),
     Resp("other", {}, None, <<>>, <<>>, FALSE, <<>>),
     Resp("dict", {}, None, <<>>, <<>>, FALSE, <<>>),
     Resp("dict", {"result"}, None, <<>>, <<>>, FALSE, <<>>),
     Resp("dict", {"result"}, None, <<>>, <<>>, TRUE,
          <<Item("dict", FALSE, <<>>)>>)}
    \cup {Resp("dict", {"result_url"}, u, <<>>, <<>>, FALSE, <<>>) : u \in URL}
    \cup {Resp("dict", {"result_urls"}, None, l, <<>>, FALSE, <<>>) :
            l \in UrlLists}
    \cup {UrlsResp(l) : l \in UrlLists}
    \cup {Resp("dict", {"result"}, None, <<>>, <<>>, TRUE,
               <<Item("dict", TRUE, l)>>) : l \in UrlLists}
    \cup {Resp("dict", {"result"}, None, <<>>, <<>>, TRUE,
               <<Item("list", FALSE, l)>>) : l \in UrlLists}

\* The API clients of services/ that app.py imports (generate_hd_image,
\* create_packshot, add_shadow, lifestyle_shot_by_text/_by_image,
\* generative_fill, erase_foreground, remove_background): without a
\* credential they raise the authentication error and send nothing;
\* otherwise they send one request and raise on a failure.
ApiClient(has_key, answer) ==
    IF ~has_key THEN [exc |-> "auth", calls |-> 0, answer |-> "unsent"]
    ELSE IF answer = "ok" THEN [exc |-> "none", calls |-> 1, answer |-> answer]
    ELSE [exc |-> answer, calls |-> 1, answer |-> answer]

\* What the body of a 200 response to enhance_prompt holds: no JSON
\* ("not_json"), JSON that is not an object ("not_dict"), an object without
\* "prompt variations" ("absent"), or one where it is a non-empty text
\* ("variation") or a falsy value ("empty").
Variations == {"variation", "empty", "absent", "not_json", "not_dict"}

\* The try block of enhance_prompt (src/services/prompt_enhancement.py
\* 25-39): requests.post, raise_for_status, response.json() and
\* result.get("prompt variations", prompt); exc is the exception that
\* leaves it, "none" when it returns value.
EnhanceTry(answer, variation) ==
    IF answer = "transport_error"
    THEN [exc |-> "RequestException", value |-> "none"]
    ELSE IF answer # "ok" THEN [exc |-> "HTTPError", value |-> "none"]
    ELSE IF variation = "not_json"
    THEN [exc |-> "JSONDecodeError", value |-> "none"]
    ELSE IF variation = "not_dict"
    THEN [exc |-> "AttributeError", value |-> "none"]
    ELSE IF variation = "absent" THEN [exc |-> "none", value |-> "prompt"]
    ELSE [exc |-> "none", value |-> variation]

\* enhance_prompt whose except block raises again.
EnhancePromptClient_Reraises(answer, variation) ==
    LET t == EnhanceTry(answer, variation)
    IN  [calls |-> 1, answer |-> answer, exc |-> t.exc, value |-> t.value]

\* enhance_prompt (src/services/prompt_enhancement.py): always posts, with
\* whatever api_key it was given; returns the "prompt variations" value of
\* the response, and the prompt itself when the key is absent; except
\* Exception: return prompt.
EnhancePromptClient(answer, variation) ==
    LET t == EnhanceTry(answer, variation)
    IN  [calls |-> 1, answer |-> answer, exc |-> "none",
         value |-> IF t.exc # "none" THEN "prompt" ELSE t.value]

\* "422" in str(e)
Mentions422(exc) == exc = "http_422"

(***************************************************************************)
(* What a handler does to the session, as a value                          *)
(***************************************************************************)

\* invoked: the calls of API client functions the handler made.
\* edited = None: edited_image is not assigned; generated = <<>>:
\* generated_images is not assigned; enhanced = "keep": enhanced_prompt is
\* not assigned; auto: pending_urls is assigned and auto_check_images runs.
\* answer: how the backend answered the request of the run; "unsent" when
\* the form was submitted and no request was sent, "none" when the form was
\* incomplete and nothing was submitted.
NoEffect ==
    [edited |-> None, generated |-> <<>>, pending |-> <<>>, auto |-> FALSE,
     enhanced |-> "keep", msgs |-> {}, api_calls |-> 0, answer |-> "none",
     invoked |-> 0]

\* The handler called API client functions k times on its way to eff.
Invoked(eff, k) == [eff EXCEPT !.invoked = k]

\* The handler showed messages and assigned nothing.
Shows(msgs, calls, answer) ==
    [NoEffect EXCEPT !.msgs = msgs, !.api_calls = calls, !.answer = answer]

\* st.session_state.edited_image = url, and a success message.
SetsEdited(url, calls, answer) ==
    [NoEffect EXCEPT !.edited = url, !.msgs = {<<"success", "generated">>},
                     !.api_calls = calls, !.answer = answer]

\* except Exception as e: st.error(f"Error ...: {str(e)}")
GenericExcept(exc, calls, answer) ==
    Shows({<<"error", exc>>}, calls, answer)

\* except Exception as e: st.error(...); if "422" in str(e): st.warning(
\* "Content moderation failed. ...")
ModerationExcept(exc, calls, answer) ==
    Shows({<<"error", exc>>}
          \cup (IF Mentions422(exc) THEN {<<"warning", "moderation">>} ELSE {}),
          calls, answer)

\* for item in result["result"]: the first item that is a dict with "urls"
\* gives item["urls"][0], the first non-empty list gives item[0].
RECURSIVE ScanItems(_)
ScanItems(items) ==
    IF items = <<>> THEN [kind |-> "nothing", url |-> None]
    ELSE LET item == Head(items)
         IN  IF item.type = "dict" /\ item.has_urls
             THEN IF item.urls = <<>>
                  THEN [kind |-> "raise", url |-> None]
                  ELSE [kind |-> "url", url |-> item.urls[1]]
             ELSE IF item.type = "list" /\ Len(item.urls) > 0
                  THEN [kind |-> "url", url |-> item.urls[1]]
                  ELSE ScanItems(Tail(items))

\* x[0] of a list
First(l) ==
    IF l = <<>> THEN [kind |-> "raise", url |-> None]
    ELSE [kind |-> "url", url |-> l[1]]

\* The effect of an extraction inside a try block: an IndexError goes to
\* the except block, which tests for "422" (checks422) or does not.
Extracted(x, checks422, calls) ==
    IF x.kind = "url" THEN SetsEdited(x.url, calls, "ok")
    ELSE IF x.kind = "raise"
    THEN IF checks422 THEN ModerationExcept("IndexError", calls, "ok")
         ELSE GenericExcept("IndexError", calls, "ok")
    ELSE Shows({}, calls, "ok")

(***************************************************************************)
(* The handlers of main()                                                  *)
(***************************************************************************)

\* "Enhance Prompt" (src/app.py 270-282)
EnhanceHandler(key, has_prompt, answer, variation) ==
    IF ~has_prompt THEN Shows({<<"warning", "no_prompt">>}, 0, "none")
    ELSE LET c == EnhancePromptClient(answer, variation)
         IN  IF c.exc # "none"
             THEN Invoked(GenericExcept(c.exc, c.calls, c.answer), 1)
             ELSE IF c.value # "empty"
             THEN [NoEffect EXCEPT !.enhanced = c.value,
                                   !.msgs = {<<"success", "enhanced">>},
                                   !.api_calls = c.calls,
                                   !.answer = c.answer,
                                   !.invoked = 1]
             ELSE Invoked(Shows({}, c.calls, c.answer), 1)

\* if isinstance(result, dict): ... of "Generate Images" (src/app.py 332-348)
HdExtract(resp) ==
    IF "result_url" \in resp.keys
    THEN [kind |-> "url", url |-> resp.result_url]
    ELSE IF "result_urls" \in resp.keys THEN First(resp.result_urls)
    ELSE IF "result" \in resp.keys /\ resp.result_is_list
         THEN ScanItems(resp.result)
         ELSE [kind |-> "nothing", url |-> None]

\* "Generate Images" (src/app.py 308-354)
HdImageHandler(has_key, answer, resp) ==
    IF ~has_key THEN Shows({<<"error", "missing_api_key">>}, 0, "unsent")
    ELSE LET c == ApiClient(has_key, answer)
             eff == IF c.exc # "none"
                    THEN GenericExcept(c.exc, c.calls, c.answer)
                    ELSE IF resp.type = "falsy"
                    THEN Shows({}, c.calls, c.answer)
                    ELSE IF resp.type = "dict"
                    THEN Extracted(HdExtract(resp), FALSE, c.calls)
                    ELSE Shows({<<"error", "no_valid_format">>}, c.calls,
                               c.answer)
         IN  Invoked(eff, 1)

\* ResultUrlOrError, registering the URL as a pending job instead.
ResultUrlOrError_Pending(resp, calls) ==
    IF resp.type = "dict" /\ "result_url" \in resp.keys
    THEN [NoEffect EXCEPT !.pending = <<resp.result_url>>, !.auto = TRUE,
                          !.api_calls = calls, !.answer = "ok"]
    ELSE Shows({<<"error", "no_result">>}, calls, "ok")

\* if result and "result_url" in result: ... else: st.error("No result URL
\* in the API response. ...") (src/app.py 438-442, 493-497)
ResultUrlOrError(resp, calls) ==
    IF resp.type = "dict" /\ "result_url" \in resp.keys
    THEN SetsEdited(resp.result_url, calls, "ok")
    ELSE Shows({<<"error", "no_result">>}, calls, "ok")

\* "Create Packshot" (src/app.py 403-446).  With force_rmbg the background
\* is removed first: remove_background, then requests.get of its result
\* (ok: the download answered 200).
PackshotHandler(has_key, force_rmbg, bg_answer, bg_resp, ok, answer, resp) ==
    LET bg == ApiClient(has_key, bg_answer)
        c == ApiClient(has_key, answer)
        n == IF force_rmbg THEN bg.calls ELSE 0
        k == IF force_rmbg THEN 1 ELSE 0
    IN  IF force_rmbg /\ bg.exc # "none"
        THEN Invoked(ModerationExcept(bg.exc, bg.calls, bg.answer), k)
        ELSE IF force_rmbg
                /\ ~(bg_resp.type = "dict" /\ "result_url" \in bg_resp.keys)
        THEN Invoked(Shows({<<"error", "background_removal_failed">>}, n,
                           "ok"), k)
        ELSE IF force_rmbg /\ ~ok
        THEN Invoked(Shows({<<"error", "download_failed">>}, n, "ok"), k)
        ELSE IF c.exc # "none"
        THEN Invoked(ModerationExcept(c.exc, n + c.calls, c.answer), k + 1)
        ELSE Invoked(ResultUrlOrError(resp, n + c.calls), k + 1)

\* "Add Shadow" (src/app.py 475-502)
ShadowHandler(has_key, answer, resp) ==
    LET c == ApiClient(has_key, answer)
        eff == IF c.exc # "none"
               THEN ModerationExcept(c.exc, c.calls, c.answer)
               ELSE ResultUrlOrError(resp, c.calls)
    IN  Invoked(eff, 1)

\* "Erase Selected Area" (src/app.py 1012-1040)
EraseHandler(has_key, has_mask, answer, resp) ==
    IF ~has_mask THEN Shows({<<"warning", "no_mask">>}, 0, "none")
    ELSE LET c == ApiClient(has_key, answer)
             eff == IF c.exc # "none"
                    THEN ModerationExcept(c.exc, c.calls, c.answer)
                    ELSE IF resp.type = "falsy"
                    THEN Shows({}, c.calls, c.answer)
                    ELSE ResultUrlOrError(resp, c.calls)
         IN  Invoked(eff, 1)

\* The "Placement Type" select box of the lifestyle form
PlacementTypes ==
    {"Original", "Automatic", "Manual Placement", "Manual Padding",
     "Custom Coordinates"}

\* shot_width and shot_height are assigned in the third branch of
\* if "Manual Placement" / elif "Manual Padding" / elif placement_type in
\* ["Automatic", "Manual Placement", "Custom Coordinates"] (src/app.py
\* 519-538): the first branch takes "Manual Placement".
ShotSizeBound(placement) == placement \in {"Automatic", "Custom Coordinates"}

\* shot_size=[shot_width, shot_height] if placement_type != "Original"
\* else [1000, 1000]: reading an unassigned local raises.
ArgumentsRaise(placement) ==
    placement # "Original" /\ ~ShotSizeBound(placement)

\* Lifestyle shot, sync_mode True (src/app.py 601-621, 702-722)
LifestyleExtract(resp) ==
    IF "result_url" \in resp.keys
    THEN [kind |-> "url", url |-> resp.result_url]
    ELSE IF "result_urls" \in resp.keys THEN First(resp.result_urls)
    ELSE IF "result" \in resp.keys /\ resp.result_is_list
         THEN ScanItems(resp.result)
    ELSE IF "urls" \in resp.keys THEN First(resp.urls)
    ELSE [kind |-> "nothing", url |-> None]

\* for item in result["result"]: urls.extend(...); if len(urls) >=
\* num_results: break
RECURSIVE CollectItems(_, _, _)
CollectItems(items, urls, num_results) ==
    IF items = <<>> THEN urls
    ELSE LET item == Head(items)
             more == IF (item.type = "dict" /\ item.has_urls)
                        \/ item.type = "list"
                     THEN urls \o item.urls
                     ELSE urls
         IN  IF Len(more) >= num_results THEN more
             ELSE CollectItems(Tail(items), more, num_results)

\* LifestyleAsyncUrls without the [:num_results] slices.
LifestyleAsyncUrls_Untrimmed(resp, num_results) ==
    IF resp.type # "dict" THEN <<>>
    ELSE IF "urls" \in resp.keys THEN resp.urls
    ELSE IF "result" \in resp.keys /\ resp.result_is_list
         THEN CollectItems(resp.result, <<>>, num_results)
         ELSE <<>>

\* Lifestyle shot, sync_mode False (src/app.py 622-639, 723-740): the urls
\* list the handler builds from the response.
LifestyleAsyncUrls(resp, num_results) ==
    IF resp.type # "dict" THEN <<>>
    ELSE IF "urls" \in resp.keys THEN Take(resp.urls, num_results)
    ELSE IF "result" \in resp.keys /\ resp.result_is_list
         THEN Take(CollectItems(resp.result, <<>>, num_results), num_results)
         ELSE <<>>

\* st.session_state.pending_urls = urls; status_container.info(...);
\* auto_check_images(status_container)
Registers(urls, calls) ==
    [NoEffect EXCEPT !.pending = urls, !.auto = TRUE,
                     !.msgs = {<<"info", "generation_started">>},
                     !.api_calls = calls, !.answer = "ok"]

\* "Generate Lifestyle Shot" (src/app.py 565-666 by text, 667-767 by
\* reference image).  given: the prompt / the reference image is there;
\* n: num_results.
LifestyleHandler(has_key, given, placement, sync_mode, n, answer, resp) ==
    IF ~given THEN NoEffect
    ELSE IF ArgumentsRaise(placement)
    THEN ModerationExcept("NameError", 0, "unsent")
    ELSE LET c == ApiClient(has_key, answer)
             urls == LifestyleAsyncUrls(resp, n)
             eff == IF c.exc # "none"
                    THEN ModerationExcept(c.exc, c.calls, c.answer)
                    ELSE IF resp.type = "falsy"
                    THEN Shows({}, c.calls, c.answer)
                    ELSE IF sync_mode
                    THEN IF resp.type = "dict"
                         THEN Extracted(LifestyleExtract(resp), TRUE, c.calls)
                         ELSE Shows({}, c.calls, c.answer)
                    ELSE IF urls # <<>> THEN Registers(urls, c.calls)
                         ELSE Shows({}, c.calls, c.answer)
         IN  Invoked(eff, 1)

\* Generative fill, sync_mode False (src/app.py 909-911):
\* st.session_state.pending_urls = result["urls"][:num_results]
FillAsyncUrls(resp, num_results) == Take(resp.urls, num_results)

\* "Generate" of the generative fill tab (src/app.py 853-933); n:
\* num_results.
FillHandler(has_key, has_prompt, has_mask, sync_mode, n, answer, resp) ==
    IF ~has_key THEN Shows({<<"error", "missing_api_key">>}, 0, "unsent")
    ELSE IF ~has_prompt THEN Shows({<<"error", "no_prompt">>}, 0, "none")
    ELSE IF ~has_mask THEN Shows({<<"error", "no_mask">>}, 0, "none")
    ELSE LET c == ApiClient(has_key, answer)
             eff == IF c.exc # "none"
                    THEN GenericExcept(c.exc, c.calls, c.answer)
                    ELSE IF resp.type = "falsy"
                    THEN Shows({}, c.calls, c.answer)
                    ELSE IF sync_mode
                    THEN IF "urls" \in resp.keys /\ resp.urls # <<>>
                         THEN [SetsEdited(resp.urls[1], c.calls, c.answer)
                                 EXCEPT !.generated = IF Len(resp.urls) > 1
                                                      THEN resp.urls
                                                      ELSE <<>>]
                         ELSE IF "result_url" \in resp.keys
                         THEN SetsEdited(resp.result_url, c.calls, c.answer)
                         ELSE Shows({}, c.calls, c.answer)
                    ELSE IF "urls" \in resp.keys
                         THEN Registers(FillAsyncUrls(resp, n), c.calls)
                         ELSE Shows({}, c.calls, c.answer)
         IN  Invoked(eff, 1)

(***************************************************************************)
(* The handlers applied to the session                                     *)
(***************************************************************************)

\* Everything each handler can do, over its inputs and the backend's
\* answers, by whether st.session_state.api_key is set.
EnhanceEffects ==
    [k \in BOOLEAN |->
        {EnhanceHandler(k, p, a, v) :
            p \in BOOLEAN, a \in Answers, v \in Variations}]

HdImageEffects ==
    [k \in BOOLEAN |->
        {HdImageHandler(k, a, r) : a \in Answers, r \in OpsResponses}]

\* What remove_background answers with.
BgResponses ==
    {r \in OpsResponses :
        r.type = "falsy" \/ r.keys = {} \/ r.keys = {"result_url"}}

PackshotEffects ==
    [k \in BOOLEAN |->
        {PackshotHandler(k, f, ba, br, d, a, r) :
            f \in BOOLEAN, ba \in Answers, br \in BgResponses,
            d \in BOOLEAN, a \in Answers, r \in OpsResponses}]

ShadowEffects ==
    [k \in BOOLEAN |->
        {ShadowHandler(k, a, r) : a \in Answers, r \in OpsResponses}]

EraseEffects ==
    [k \in BOOLEAN |->
        {EraseHandler(k, m, a, r) :
            m \in BOOLEAN, a \in Answers, r \in OpsResponses}]

LifestyleEffects ==
    [k \in BOOLEAN |->
        {LifestyleHandler(k, g, p, s, n, a, r) :
            g \in BOOLEAN, p \in PlacementTypes, s \in BOOLEAN,
            n \in 1..LifestyleMaxResults, a \in Answers,
            r \in OpsResponses}]

FillEffects ==
    [k \in BOOLEAN |->
        {FillHandler(k, p, m, s, n, a, r) :
            p \in BOOLEAN, m \in BOOLEAN, s \in BOOLEAN,
            n \in 1..FillMaxResults, a \in Answers, r \in OpsResponses}]

\* The lifestyle handler with sync_mode False, arguments that reach the
\* client, and a backend that answers {"urls": urls}.
LifestyleAsyncEffects ==
    [k \in BOOLEAN |->
        {LifestyleHandler(k, TRUE, p, FALSE, n, "ok", UrlsResp(l)) :
            p \in {q \in PlacementTypes : ~ArgumentsRaise(q)},
            n \in 1..LifestyleMaxResults, l \in UrlLists}]

\* The generative fill handler with sync_mode False when the backend
\* answers {"urls": urls}.
FillAsyncEffects ==
    [k \in BOOLEAN |->
        {FillHandler(k, TRUE, TRUE, FALSE, n, "ok", UrlsResp(l)) :
            n \in 1..FillMaxResults, l \in UrlLists}]

\* A key found in the environment / typed into the sidebar.
EnvKey == "env key"

TypedKey == "typed key"

\* No client call was made.
NoCredential == [backend |-> "none", key |-> NoKey]

\* The sidebar inputs of the fal.ai and Google keys (src/app.py 213-234):
\* fal_default = session value or environment value; the input returns
\* what the user typed, else that default; a non-empty input is stored.
SidebarKey(session, env, typed) ==
    IF typed # NoKey THEN typed
    ELSE IF session # NoKey THEN session
    ELSE env

\* The sidebar of a run in which fal_typed / google_typed were typed
\* (NoKey: nothing typed).
Sidebar(fal_typed, google_typed) ==
    /\ fal_api_key' = SidebarKey(fal_api_key, environ.LTX, fal_typed)
    /\ google_api_key' =
          SidebarKey(google_api_key, environ.GOOGLE_API_KEY, google_typed)

\* auto_check_images starts: max_attempts = 3; attempt = 0
EnterAutoLoop ==
    /\ pc' = "auto"
    /\ attempt' = 0
    /\ sleeps' = 0
    /\ polled' = Range(pending_urls')
    /\ passes' = 0
    /\ last_pass' = <<>>
    /\ recovered' = {}
    /\ ok_first' = {}
    /\ ok_later' = {}
    /\ ready_images' = <<>>
    /\ auto_result' = "none"
    /\ refresh_rendered' = FALSE

\* What a run whose handler did eff assigns, the prompts apart.
Assigns(eff) ==
    /\ pc = "idle"
    /\ edited_image' = IF eff.edited # None THEN eff.edited ELSE edited_image
    /\ generated_images' =
          IF eff.generated # <<>> THEN eff.generated ELSE generated_images
    /\ messages' = eff.msgs
    /\ api_calls' = eff.api_calls
    /\ last_answer' = eff.answer
    /\ client_calls' = eff.invoked
    /\ credential' = IF eff.invoked > 0
                     THEN [backend |-> "primary", key |-> api_key]
                     ELSE NoCredential
    /\ Sidebar(NoKey, NoKey)
    /\ UNCHANGED <<environ, video_requests, process>>
    /\ IF eff.auto
       THEN /\ pending_urls' = eff.pending
            /\ EnterAutoLoop
       ELSE /\ refresh_rendered' = FALSE
            /\ UNCHANGED <<pending_urls, pc, attempt, sleeps, probes,
                           ready_images, auto_result>>
    /\ UNCHANGED <<raised, api_key>>

\* One run of the script in which a button was clicked and its handler
\* did eff, the text of the prompt being the one of the run before.
Script(eff) ==
    /\ Assigns(eff)
    /\ enhanced_prompt' =
          IF eff.enhanced # "keep" THEN eff.enhanced ELSE enhanced_prompt
    /\ UNCHANGED prompts

\* Such a run, of a request that is not singled out.
Apply(eff) == Script(eff) /\ UNCHANGED drawn

HasKey == api_key # NoKey

\* No run is singled out.
NoRequest == [op |-> "none"]

EnhancePrompt == \E eff \in EnhanceEffects[HasKey] : Apply(eff)

GenerateImages == \E eff \in HdImageEffects[HasKey] : Apply(eff)

CreatePackshot == \E eff \in PackshotEffects[HasKey] : Apply(eff)

AddShadow == \E eff \in ShadowEffects[HasKey] : Apply(eff)

LifestyleShot == \E eff \in LifestyleEffects[HasKey] : Apply(eff)

GenerativeFill == \E eff \in FillEffects[HasKey] : Apply(eff)

EraseForeground == \E eff \in EraseEffects[HasKey] : Apply(eff)

\* The user clicks "Generate Lifestyle Shot" with sync_mode False and the
\* backend, if asked, answers {"urls": urls}.
SubmitLifestyleAsync ==
    \E eff \in LifestyleAsyncEffects[HasKey] : Apply(eff)

\* The user clicks "Generate" of the generative fill tab with sync_mode
\* False and the backend, if asked, answers {"urls": urls}.
SubmitFillAsync ==
    \E eff \in FillAsyncEffects[HasKey] : Apply(eff)

\* The user types a key into "Enter your BRIA API key:" (src/app.py
\* 205-211): a run in which no button was clicked.
EnterApiKey ==
    /\ pc = "idle"
    /\ api_key' = BriaKey
    /\ messages' = {}
    /\ api_calls' = 0
    /\ last_answer' = "none"
    /\ client_calls' = 0
    /\ credential' = NoCredential
    /\ Sidebar(NoKey, NoKey)
    /\ refresh_rendered' = FALSE
    /\ UNCHANGED <<pending_urls, edited_image, generated_images, pc, attempt,
                   ready_images, probes, sleeps, auto_result, raised,
                   enhanced_prompt, drawn, environ, video_requests, prompts,
                   process>>

(***************************************************************************)
(* Later interactions                                                      *)
(***************************************************************************)

\* The user clicks the rendered "Check for Generated Images" button.  The
\* script reruns; st.button("Generate Lifestyle Shot") / st.button("Generate")
\* now returns False, so the block that holds the refresh button and its
\* call of check_generated_images is not entered (src/app.py 567, 656-662;
\* 853, 925-930).
ClickRefresh ==
    /\ pc = "idle"
    /\ refresh_rendered
    /\ refresh_rendered' = FALSE
    /\ messages' = {}
    /\ api_calls' = 0
    /\ last_answer' = "none"
    /\ client_calls' = 0
    /\ credential' = NoCredential
    /\ Sidebar(NoKey, NoKey)
    /\ UNCHANGED <<pending_urls, edited_image, generated_images, pc, attempt,
                   ready_images, probes, sleeps, auto_result, raised,
                   api_key, enhanced_prompt, drawn, environ, video_requests,
                   prompts, process>>

\* No prompt was entered yet (src/app.py 114-117).
NoPrompt == ""

FreshPrompts ==
    /\ original_prompt = NoPrompt
    /\ enhanced_of = NoPrompt
    /\ exposed = {}

\* The sessions of a server process.
Sessions == {1, 2}

\* A video client call of a session: the function it is in ("idle": none),
\* the api_key it was given, and the FAL_KEY fal_client found.
NoCall == [pc |-> "idle", api_key |-> NoKey, used |-> NoKey]

\* The process runs one session, which is the one followed above.
OneSession ==
    /\ fal_keys = [s \in Sessions |-> NoKey]
    /\ fal_calls = [s \in Sessions |-> NoCall]

Init ==
    /\ pending_urls = <<>>
    /\ edited_image = None
    /\ generated_images = <<>>
    /\ pc = "idle"
    /\ attempt = 0
    /\ ready_images = <<>>
    /\ polled = {}
    /\ passes = 0
    /\ last_pass = <<>>
    /\ recovered = {}
    /\ ok_first = {}
    /\ ok_later = {}
    /\ sleeps = 0
    /\ auto_result = "none"
    /\ refresh_rendered = FALSE
    /\ raised = FALSE
    /\ api_key \in {NoKey, BriaKey}
    /\ enhanced_prompt = "none"
    /\ messages = {}
    /\ api_calls = 0
    /\ last_answer = "none"
    /\ client_calls = 0
    /\ request = NoRequest
    /\ handled = FALSE
    /\ environ = [BRIA_API_KEY |-> api_key, LTX |-> NoKey,
                  GOOGLE_API_KEY |-> NoKey, FAL_KEY |-> NoKey]
    /\ fal_api_key = NoKey
    /\ google_api_key = NoKey
    /\ credential = NoCredential
    /\ video_requests = <<>>
    /\ FreshPrompts
    /\ OneSession

\* The asynchronous submissions and the polling that follows them.
Next ==
    \/ SubmitLifestyleAsync
    \/ SubmitFillAsync
    \/ AutoAttempt
    \/ AutoExit
    \/ ClickRefresh

Spec == Init /\ [][Next]_vars

\* The handlers of the generation backend, each followed until it returns
\* or enters auto_check_images.
OpsNext ==
    \/ EnterApiKey
    \/ EnhancePrompt
    \/ GenerateImages
    \/ CreatePackshot
    \/ AddShadow
    \/ LifestyleShot
    \/ GenerativeFill
    \/ EraseForeground

OpsSpec == Init /\ [][OpsNext]_vars

\* The script runs to its end once started: the while loop of
\* auto_check_images is ordinary sequential code.
LiveSpec == Spec /\ WF_vars(AutoAttempt \/ AutoExit)

(***************************************************************************)
(* The video tab and the keys of the three backends                        *)
(***************************************************************************)

\* Pending video requests the model follows.
MaxVideoRequests == 2

\* request_id values of fal_client.submit
VideoIds == 1..MaxVideoRequests

\* VIDEO_MODELS["minimax"]["id"], VIDEO_MODELS["luma"]["id"]
Minimax == "fal-ai/minimax-video/image-to-video"

Luma == "fal-ai/luma-dream-machine"

\* The model ids the select box offers (two of the three).
VideoModels == {Minimax, Luma}

\* video_prompt when it is not empty
VideoPrompt == "video_prompt"

\* time.time()
Now == "time.time()"

\* The dict appended to st.session_state.video_requests (src/app.py
\* 1290-1295).
VideoRequest(id, model) ==
    [request_id |-> id, model |-> model, prompt |-> VideoPrompt,
     timestamp |-> Now]

\* What fal_client.subscribe / fal_client.submit does: raises, or returns
\* nothing, a dict with video.url, a dict with url, or another dict.
VideoOutcomes == {"raise", "falsy", "video_url", "url", "other"}

\* upload_image_for_video (src/services/video_generation.py 158-180): sets
\* FAL_KEY to a given api_key, then uploads; ok: fal_client.upload_file
\* returned.
UploadImageForVideo(given_key, fal_key, ok) ==
    [exc |-> ~ok, FAL_KEY |-> IF given_key # NoKey THEN given_key ELSE fal_key]

\* generate_video_from_image that waits for the result whatever sync is.
GenerateVideoFromImage_Waits(given_key, fal_key, sync, outcome) ==
    LET key == IF given_key # NoKey THEN given_key ELSE fal_key
    IN  IF key = NoKey
        THEN [exc |-> TRUE, result |-> "none", FAL_KEY |-> fal_key,
              sent |-> FALSE]
        ELSE IF outcome = "raise"
        THEN [exc |-> TRUE, result |-> "none", FAL_KEY |-> key, sent |-> TRUE]
        ELSE [exc |-> FALSE, result |-> outcome, FAL_KEY |-> key,
              sent |-> TRUE]

\* generate_video_from_image (src/services/video_generation.py 6-104): sets
\* FAL_KEY to a given api_key and raises when there is neither; with sync
\* returns what fal_client.subscribe returns, else a dict with the
\* request_id of fal_client.submit.
GenerateVideoFromImage(given_key, fal_key, sync, outcome) ==
    LET key == IF given_key # NoKey THEN given_key ELSE fal_key
    IN  IF key = NoKey
        THEN [exc |-> TRUE, result |-> "none", FAL_KEY |-> fal_key,
              sent |-> FALSE]
        ELSE IF outcome = "raise"
        THEN [exc |-> TRUE, result |-> "none", FAL_KEY |-> key, sent |-> TRUE]
        ELSE [exc |-> FALSE,
              result |-> IF sync THEN outcome ELSE "request_id",
              FAL_KEY |-> key, sent |-> TRUE]

\* What a handler of the video tab does, as a value.
\* added: the dicts appended to video_requests; popped: the position of the
\* one removed from it, 0 when none is.
VideoEffect(msgs, invoked, key, fal_key, added) ==
    [msgs |-> msgs, invoked |-> invoked,
     credential |-> IF invoked > 0 THEN [backend |-> "fal", key |-> key]
                    ELSE NoCredential,
     FAL_KEY |-> fal_key, added |-> added, popped |-> 0]

\* fal_api_key = os.getenv("Fal.ai_LTX_API_KEY") or
\* st.session_state.get("fal_api_key") (src/app.py 1179)
FalKeyAtSubmit(env, session) == IF env.LTX # NoKey THEN env.LTX ELSE session

\* google_api_key = os.getenv("GOOGLE_API_KEY") or
\* st.session_state.get("google_api_key") (src/app.py 1305)
GoogleKeyAtSubmit(env, session) ==
    IF env.GOOGLE_API_KEY # NoKey THEN env.GOOGLE_API_KEY ELSE session

\* The fal.ai branch of "Generate Video" (src/app.py 1177-1302).
\* upload: the image is an uploaded file; upload_ok, outcome: what the fal
\* client does; download_ok: requests.get(video_url) returned; id: the
\* request_id of a submission; model: selected_model["id"].
FalVideoHandler(env, session, upload, upload_ok, sync_mode, outcome, download_ok, id, model) ==
    LET key == FalKeyAtSubmit(env, session)
        up == UploadImageForVideo(key, env.FAL_KEY, upload_ok)
        k == IF upload THEN 1 ELSE 0
        mid == IF upload THEN up.FAL_KEY ELSE env.FAL_KEY
        gen == GenerateVideoFromImage(key, mid, sync_mode, outcome)
        shown == {<<"success", "video">>}
                 \cup (IF download_ok THEN {}
                       ELSE {<<"warning", "download">>})
    IN  IF key = NoKey
        THEN VideoEffect({<<"error", "missing_fal_key">>}, 0, key,
                         env.FAL_KEY, <<>>)
        ELSE IF upload /\ up.exc
        THEN VideoEffect({<<"error", "video_failed">>}, 1, key, up.FAL_KEY,
                         <<>>)
        ELSE IF gen.exc
        THEN VideoEffect({<<"error", "video_failed">>}, k + 1, key,
                         gen.FAL_KEY, <<>>)
        ELSE IF gen.result = "falsy"
        THEN VideoEffect({}, k + 1, key, gen.FAL_KEY, <<>>)
        ELSE IF sync_mode
        THEN IF gen.result \in {"video_url", "url"}
             THEN VideoEffect(shown, k + 1, key, gen.FAL_KEY, <<>>)
             ELSE VideoEffect({<<"error", "no_video_url">>}, k + 1, key,
                              gen.FAL_KEY, <<>>)
        ELSE IF gen.result = "request_id"
             THEN VideoEffect({<<"info", "video_started">>}, k + 1, key,
                              gen.FAL_KEY, <<VideoRequest(id, model)>>)
             ELSE VideoEffect({<<"error", "no_request_id">>}, k + 1, key,
                              gen.FAL_KEY, <<>>)

\* The Google Veo branch (src/app.py 1303-1349): the image is downloaded
\* when it is a URL (fetch_ok), then the call of
\* generate_video_with_google_veo, a name main() never binds, raises.
GoogleVideoHandler(env, session, upload, fetch_ok) ==
    IF GoogleKeyAtSubmit(env, session) = NoKey
    THEN VideoEffect({<<"error", "missing_google_key">>}, 0, NoKey,
                     env.FAL_KEY, <<>>)
    ELSE IF ~upload /\ ~fetch_ok
    THEN VideoEffect({<<"error", "download">>}, 0, NoKey, env.FAL_KEY, <<>>)
    ELSE VideoEffect({<<"error", "NameError">>}, 0, NoKey, env.FAL_KEY, <<>>)

\* image_source (src/app.py 1066-1081): the current result, or the
\* uploaded file.
HasImageSource(f, has_result) == IF f.upload THEN f.has_file ELSE has_result

\* "Generate Video" (src/app.py 1171-1349).  f: the form and what the
\* clients do with it; has_result: edited_image is set.
VideoHandler(env, fal, google, has_result, f) ==
    IF ~f.has_prompt
    THEN VideoEffect({<<"error", "no_video_prompt">>}, 0, NoKey, env.FAL_KEY,
                     <<>>)
    ELSE IF ~HasImageSource(f, has_result)
    THEN VideoEffect({<<"error", "no_image_source">>}, 0, NoKey, env.FAL_KEY,
                     <<>>)
    ELSE IF f.provider = "fal.ai"
    THEN FalVideoHandler(env, fal, f.upload, f.upload_ok, f.sync_mode,
                         f.outcome, f.download_ok, f.id, f.model)
    ELSE GoogleVideoHandler(env, google, f.upload, f.download_ok)

\* The forms of the video tab and what the clients do with them.  upload:
\* input_method is "Upload New Image"; has_file: a file was uploaded.
VideoForms ==
    [has_prompt : BOOLEAN, upload : BOOLEAN, has_file : BOOLEAN,
     provider : {"fal.ai", "Google Veo"}, upload_ok : BOOLEAN,
     download_ok : BOOLEAN, sync_mode : BOOLEAN, outcome : VideoOutcomes,
     id : VideoIds, model : VideoModels]

\* The forms without the inputs the page does not show: the file uploader
\* exists with "Upload New Image" only; with Google Veo sync_mode is True
\* and there is neither a model nor a fal client.
ShownVideoForms ==
    {f \in VideoForms :
        /\ f.upload \/ ~f.has_file
        /\ f.provider = "fal.ai"
           \/ (f.sync_mode /\ f.upload_ok /\ f.outcome = "raise" /\ f.id = 1
                /\ f.model = Minimax)}

\* The values of a key.
KeyValues == {NoKey, EnvKey, TypedKey}

\* Everything the handler can do, by Fal.ai_LTX_API_KEY, GOOGLE_API_KEY,
\* FAL_KEY, the two session keys and whether edited_image is set.
VideoEffects ==
    [l \in KeyValues, g \in KeyValues, k \in KeyValues, fal \in KeyValues, google \in KeyValues, has_result \in BOOLEAN |->
        {VideoHandler([BRIA_API_KEY |-> NoKey, LTX |-> l,
                       GOOGLE_API_KEY |-> g, FAL_KEY |-> k],
                      fal, google, has_result, f) : f \in ShownVideoForms}]

\* check_video_status (src/services/video_generation.py 106-130): sets
\* FAL_KEY to a given api_key; ok: fal_client.status returned.
CheckVideoStatus(given_key, fal_key, ok) ==
    [exc |-> ~ok, FAL_KEY |-> IF given_key # NoKey THEN given_key ELSE fal_key]

\* get_video_result (src/services/video_generation.py 132-156): sets
\* FAL_KEY to a given api_key, then returns what fal_client.result returns.
GetVideoResult(given_key, fal_key, outcome) ==
    [exc |-> outcome = "raise",
     result |-> IF outcome = "raise" THEN "none" ELSE outcome,
     FAL_KEY |-> IF given_key # NoKey THEN given_key ELSE fal_key]

\* "Check Status" of a pending video request (src/app.py 1365-1374)
StatusHandler(env, session, ok) ==
    LET key == FalKeyAtSubmit(env, session)
        c == CheckVideoStatus(key, env.FAL_KEY, ok)
    IN  IF key = NoKey
        THEN VideoEffect({<<"error", "status_key_required">>}, 0, key,
                         env.FAL_KEY, <<>>)
        ELSE IF c.exc
        THEN VideoEffect({<<"error", "status_failed">>}, 1, key, c.FAL_KEY,
                         <<>>)
        ELSE VideoEffect({}, 1, key, c.FAL_KEY, <<>>)

\* st.session_state.video_requests.pop(i), removing the first entry.
Pop_First(s, i) == Tail(s)

\* st.session_state.video_requests.pop(i); i counts from 1 here.
Pop(s, i) == SubSeq(s, 1, i - 1) \o SubSeq(s, i + 1, Len(s))

\* "Get Result" of the pending video request at position i (src/app.py
\* 1377-1395): "video" in result raises on None.
ResultHandler(env, session, outcome, i) ==
    LET key == FalKeyAtSubmit(env, session)
        c == GetVideoResult(key, env.FAL_KEY, outcome)
    IN  IF key = NoKey
        THEN VideoEffect({<<"error", "result_key_required">>}, 0, key,
                         env.FAL_KEY, <<>>)
        ELSE IF c.exc \/ c.result = "falsy"
        THEN VideoEffect({<<"error", "result_failed">>}, 1, key, c.FAL_KEY,
                         <<>>)
        ELSE IF c.result = "video_url"
        THEN [VideoEffect({<<"success", "video_ready">>}, 1, key, c.FAL_KEY,
                          <<>>) EXCEPT !.popped = i]
        ELSE VideoEffect({}, 1, key, c.FAL_KEY, <<>>)

\* A run of the script that clicked no button of the image tabs and showed
\* msgs.
OtherScript(msgs) ==
    /\ pc = "idle"
    /\ messages' = msgs
    /\ api_calls' = 0
    /\ last_answer' = "none"
    /\ refresh_rendered' = FALSE
    /\ UNCHANGED <<pending_urls, edited_image, generated_images, pc, attempt,
                   ready_images, probes, sleeps, auto_result, raised,
                   api_key, enhanced_prompt, prompts, process>>

\* Such a run, of a request that is not singled out.
OtherRun(msgs) == OtherScript(msgs) /\ UNCHANGED drawn

\* What a handler of the video tab that did v leaves behind.
VideoScript(v) ==
    /\ client_calls' = v.invoked
    /\ credential' = v.credential
    /\ environ' = [environ EXCEPT !.FAL_KEY = v.FAL_KEY]
    /\ video_requests' =
          (IF v.popped = 0 THEN video_requests
           ELSE Pop(video_requests, v.popped)) \o v.added

\* The user clicks "Generate Video".
GenerateVideo ==
    /\ Sidebar(NoKey, NoKey)
    /\ \E v \in VideoEffects[environ.LTX, environ.GOOGLE_API_KEY,
                              environ.FAL_KEY, fal_api_key', google_api_key',
                              edited_image # None] :
         /\ Len(video_requests) + Len(v.added) <= MaxVideoRequests
         /\ OtherRun(v.msgs)
         /\ VideoScript(v)

\* The user types a key into "Enter your fal.ai API key:".
EnterFalKey ==
    /\ Sidebar(TypedKey, NoKey)
    /\ OtherRun({})
    /\ client_calls' = 0
    /\ credential' = NoCredential
    /\ UNCHANGED <<environ, video_requests>>

\* The user types a key into "Enter your Google API key:".
EnterGoogleKey ==
    /\ Sidebar(NoKey, TypedKey)
    /\ OtherRun({})
    /\ client_calls' = 0
    /\ credential' = NoCredential
    /\ UNCHANGED <<environ, video_requests>>

\* A session starts with any of the three keys in the environment.
KeyInit ==
    /\ pending_urls = <<>>
    /\ edited_image = None
    /\ generated_images = <<>>
    /\ pc = "idle"
    /\ attempt = 0
    /\ ready_images = <<>>
    /\ polled = {}
    /\ passes = 0
    /\ last_pass = <<>>
    /\ recovered = {}
    /\ ok_first = {}
    /\ ok_later = {}
    /\ sleeps = 0
    /\ auto_result = "none"
    /\ refresh_rendered = FALSE
    /\ raised = FALSE
    /\ api_key \in {NoKey, EnvKey}
    /\ enhanced_prompt = "none"
    /\ messages = {}
    /\ api_calls = 0
    /\ last_answer = "none"
    /\ client_calls = 0
    /\ request = NoRequest
    /\ handled = FALSE
    /\ \E l \in {NoKey, EnvKey}, g \in {NoKey, EnvKey} :
         environ = [BRIA_API_KEY |-> api_key, LTX |-> l,
                    GOOGLE_API_KEY |-> g, FAL_KEY |-> NoKey]
    /\ fal_api_key = NoKey
    /\ google_api_key = NoKey
    /\ credential = NoCredential
    /\ video_requests = <<>>
    /\ FreshPrompts
    /\ OneSession

KeyNext ==
    \/ EnterApiKey
    \/ EnterFalKey
    \/ EnterGoogleKey
    \/ GenerateImages
    \/ GenerateVideo

\* The keys of the three backends, and the requests made with them.
KeySpec == KeyInit /\ [][KeyNext]_vars

(***************************************************************************)
(* One run of a handler of the video tab                                   *)
(***************************************************************************)

\* The pending video requests a session can hold at the start of a run.
PendingVideos ==
    [i \in 1..MaxVideoRequests |->
        VideoRequest(i, IF i % 2 = 1 THEN Minimax ELSE Luma)]

StartVideoRequests == {SubSeq(PendingVideos, 1, n) : n \in 0..MaxVideoRequests}

\* The clicks of the video tab and what the fal client does on them: the
\* "Generate Video" form, "Check Status" and "Get Result" of the request at
\* position i.
VideoClicks ==
    {[op |-> "video", f |-> f] : f \in ShownVideoForms}
    \cup {[op |-> "status", i |-> i, ok |-> b] :
            i \in 1..MaxVideoRequests, b \in BOOLEAN}
    \cup {[op |-> "result", i |-> i, outcome |-> o] :
            i \in 1..MaxVideoRequests, o \in VideoOutcomes}

\* The handler of the clicked button did v.
VideoHandle(v) ==
    /\ ~handled
    /\ Sidebar(NoKey, NoKey)
    /\ OtherScript(v.msgs)
    /\ VideoScript(v)
    /\ handled' = TRUE
    /\ UNCHANGED request

HandleGenerateVideo ==
    /\ request.op = "video"
    /\ VideoHandle(VideoHandler(environ, fal_api_key', google_api_key',
                                edited_image # None, request.f))

HandleCheckStatus ==
    /\ request.op = "status"
    /\ VideoHandle(StatusHandler(environ, fal_api_key', request.ok))

HandleGetResult ==
    /\ request.op = "result"
    /\ VideoHandle(ResultHandler(environ, fal_api_key', request.outcome,
                                 request.i))

\* A session with or without a current result and fal.ai keys, with pending
\* video requests, and one click.
VideoInit ==
    /\ pending_urls = <<>>
    /\ edited_image \in {None, 1}
    /\ generated_images = <<>>
    /\ pc = "idle"
    /\ attempt = 0
    /\ ready_images = <<>>
    /\ polled = {}
    /\ passes = 0
    /\ last_pass = <<>>
    /\ recovered = {}
    /\ ok_first = {}
    /\ ok_later = {}
    /\ sleeps = 0
    /\ auto_result = "none"
    /\ refresh_rendered = FALSE
    /\ raised = FALSE
    /\ api_key = NoKey
    /\ enhanced_prompt = "none"
    /\ messages = {}
    /\ api_calls = 0
    /\ last_answer = "none"
    /\ client_calls = 0
    /\ video_requests \in StartVideoRequests
    /\ request \in VideoClicks
    /\ request.op # "video" => request.i \in 1..Len(video_requests)
    /\ handled = FALSE
    /\ \E l \in {NoKey, EnvKey}, k \in {NoKey, EnvKey} :
         environ = [BRIA_API_KEY |-> NoKey, LTX |-> l,
                    GOOGLE_API_KEY |-> NoKey, FAL_KEY |-> k]
    /\ fal_api_key \in {NoKey, TypedKey}
    /\ google_api_key = NoKey
    /\ credential = NoCredential
    /\ FreshPrompts
    /\ OneSession

VideoNext ==
    \/ HandleGenerateVideo
    \/ HandleCheckStatus
    \/ HandleGetResult

\* Each handler of the video tab on each click.
VideoSpec == VideoInit /\ [][VideoNext]_vars

(***************************************************************************)
(* The prompt of the Generate Image tab                                    *)
(***************************************************************************)

\* The texts of the "Enter your prompt" text area.
Prompts == {NoPrompt, "prompt A", "prompt B"}

\* The prompt handling without the reset of enhanced_prompt.
SyncPrompt_KeepsEnhanced(entered, original, enhanced) ==
    [original |-> entered, enhanced |-> enhanced]

\* elif prompt != st.session_state.original_prompt: original_prompt =
\* prompt; enhanced_prompt = None (src/app.py 257-262; the if branch is
\* never taken, initialize_session_state has set original_prompt).
SyncPrompt(entered, original, enhanced) ==
    IF entered # original
    THEN [original |-> entered, enhanced |-> "none"]
    ELSE [original |-> original, enhanced |-> enhanced]

\* An enhanced prompt made of the prompt of, displayed or sent in a run
\* whose text area held entered.
Exposure(how, of, entered) == [how |-> how, of |-> of, entered |-> entered]

\* One run of the script with entered in the text area: the prompt
\* handling, the display of the enhanced prompt (src/app.py 265-267), then
\* the handler of the clicked button, which did eff.  generate: the button
\* is "Generate Images", which sends enhanced_prompt or prompt (317).  The
\* rerun that follows an enhancement (280) displays the new enhanced prompt.
PromptRun(entered, eff, generate) ==
    LET synced == SyncPrompt(entered, original_prompt, enhanced_prompt)
        of == IF synced.enhanced = "none" THEN NoPrompt ELSE enhanced_of
        shown == IF synced.enhanced # "none"
                 THEN {Exposure("displayed", of, entered)} ELSE {}
        sent == IF generate /\ eff.invoked > 0 /\ synced.enhanced # "none"
                THEN {Exposure("sent", of, entered)} ELSE {}
        again == IF eff.enhanced # "keep"
                 THEN {Exposure("displayed", entered, entered)} ELSE {}
    IN  /\ Assigns(eff)
        /\ original_prompt' = synced.original
        /\ enhanced_prompt' =
              IF eff.enhanced # "keep" THEN eff.enhanced ELSE synced.enhanced
        /\ enhanced_of' = IF eff.enhanced # "keep" THEN entered ELSE enhanced_of
        /\ exposed' = shown \cup sent \cup again
        /\ UNCHANGED drawn

\* The user edits the prompt (or leaves it) and clicks no button.
TypePrompt == \E p \in Prompts : PromptRun(p, NoEffect, FALSE)

\* The user clicks "Enhance Prompt", having edited the prompt or not.
ClickEnhance ==
    \E p \in Prompts, a \in Answers, v \in Variations :
        PromptRun(p, EnhanceHandler(HasKey, p # NoPrompt, a, v), FALSE)

\* The user clicks "Generate Images", having edited the prompt or not.
ClickGenerate ==
    \E p \in Prompts, eff \in HdImageEffects[HasKey] : PromptRun(p, eff, TRUE)

PromptNext ==
    \/ TypePrompt
    \/ ClickEnhance
    \/ ClickGenerate

\* The runs of the Generate Image tab, by the text of the prompt.
PromptSpec == Init /\ [][PromptNext]_vars

(***************************************************************************)
(* Several sessions in one server process                                  *)
(*                                                                         *)
(* Streamlit runs the script of each session in a thread of its own; the   *)
(* threads share os.environ.  A video client function first assigns        *)
(* os.environ["FAL_KEY"] and then calls fal_client, which takes the        *)
(* credential from FAL_KEY and waits for the network: another thread can    *)
(* run between the two.                                                    *)
(***************************************************************************)

\* The fal.ai keys the users type into the sidebar.
SessionKeys == {"key A", "key B"}

\* The functions of services/video_generation.py that assign FAL_KEY and
\* then call fal_client.
VideoClients ==
    {"generate_video_from_image", "check_video_status", "get_video_result",
     "upload_image_for_video"}

\* Everything of the session followed above, os.environ apart.
single ==
    <<pending_urls, edited_image, generated_images, pc, attempt, ready_images,
      probes, sleeps, auto_result, refresh_rendered, raised, api_key,
      enhanced_prompt, run, drawn, fal_api_key, google_api_key, credential,
      video_requests, prompts>>

\* The user of session s types key into "Enter your fal.ai API key:"
\* (src/app.py 213-222).
TypeFalKey(s, key) ==
    /\ fal_calls[s].pc = "idle"
    /\ fal_keys' = [fal_keys EXCEPT ![s] = key]
    /\ UNCHANGED <<fal_calls, environ, single>>

\* A handler of session s calls the video client function fn with the key
\* of its run (src/app.py 1179-1189, 1200, 1215, 1367-1369, 1379-1381), and
\* fn assigns it: if api_key: os.environ["FAL_KEY"] = api_key.
SetFalKey(s, fn) ==
    LET key == FalKeyAtSubmit(environ, fal_keys[s])
    IN  /\ fal_calls[s].pc = "idle"
        /\ key # NoKey
        /\ environ' = [environ EXCEPT !.FAL_KEY = key]
        /\ fal_calls' =
              [fal_calls EXCEPT ![s] =
                  [pc |-> fn, api_key |-> key, used |-> NoKey]]
        /\ UNCHANGED <<fal_keys, single>>

\* The function session s is in calls fal_client (subscribe, submit,
\* status, result or upload_file), which reads FAL_KEY.
FalClientCall(s) ==
    /\ fal_calls[s].pc # "idle"
    /\ fal_calls' = [fal_calls EXCEPT ![s].pc = "idle",
                                      ![s].used = environ.FAL_KEY]
    /\ UNCHANGED <<fal_keys, environ, single>>

SessionsNext ==
    \/ \E s \in Sessions, key \in SessionKeys : TypeFalKey(s, key)
    \/ \E s \in Sessions, fn \in VideoClients : SetFalKey(s, fn)
    \/ \E s \in Sessions : FalClientCall(s)

\* Two sessions that make video client calls.
SessionsSpec == Init /\ [][SessionsNext]_vars

(***************************************************************************)
(* One handler run on one request                                          *)
(***************************************************************************)

\* None / {}
NoPayload == Resp("falsy", {}, None, <<>>, <<>>, FALSE, <<>>)

\* A list of at most one URL.
ShortLists == {<<>>} \cup {<<u>> : u \in URL}

\* "result" lists of one item, and of an empty list followed by a dict.
ItemLists ==
    {<<>>}
    \cup {<<Item("dict", TRUE, l)>> : l \in ShortLists}
    \cup {<<Item("list", FALSE, l)>> : l \in ShortLists}
    \cup {<<Item("list", FALSE, <<>>), Item("dict", TRUE, <<u>>)>> : u \in URL}

\* Dicts that carry several of the keys at once.
MixedResponses ==
    {Resp("dict", ks,
          IF "result_url" \in ks THEN 1 ELSE None,
          IF "result_urls" \in ks THEN a ELSE <<>>,
          IF "urls" \in ks THEN b ELSE <<>>,
          "result" \in ks,
          IF "result" \in ks THEN r ELSE <<>>) :
        ks \in {k \in SUBSET RespKeys : Cardinality(k) >= 2},
        a \in ShortLists, b \in ShortLists, r \in ItemLists}

RunResponses == OpsResponses \cup MixedResponses

\* The answer of the backend to the request of a run: a failure, or 200
\* with a payload.
Answered ==
    {<<a, NoPayload>> : a \in Answers \ {"ok"}}
    \cup {<<"ok", r>> : r \in RunResponses}

\* A form as submitted and what the backend answers.  complete: the inputs
\* the handler asks for (prompt, mask, reference image) are there.
Request(op, complete, placement, sync_mode, n, ar) ==
    [op |-> op, complete |-> complete, placement |-> placement,
     sync_mode |-> sync_mode, n |-> n, answer |-> ar[1], resp |-> ar[2],
     force_rmbg |-> FALSE, bg_answer |-> "ok", bg_resp |-> NoPayload,
     download_ok |-> TRUE, variation |-> "absent"]

\* A packshot request with force_rmbg checked.
ForcedPackshot(bg_answer, bg_resp, download_ok, ar) ==
    [Request("packshot", TRUE, "Original", TRUE, 1, ar)
        EXCEPT !.force_rmbg = TRUE, !.bg_answer = bg_answer,
               !.bg_resp = bg_resp, !.download_ok = download_ok]

\* An "Enhance Prompt" click.
EnhanceRequest(has_prompt, answer, variation) ==
    [Request("enhance", has_prompt, "Original", TRUE, 1, <<answer, NoPayload>>)
        EXCEPT !.variation = variation]

\* A backend that answers {"result_url": 1}.
PlainAnswer ==
    <<"ok", Resp("dict", {"result_url"}, 1, <<>>, <<>>, FALSE, <<>>)>>

Requests ==
    {EnhanceRequest(p, a, v) :
        p \in BOOLEAN, a \in Answers, v \in Variations}
    \cup {Request("hd_image", TRUE, "Original", TRUE, 1, ar) :
            ar \in Answered}
    \cup {Request("packshot", TRUE, "Original", TRUE, 1, ar) :
            ar \in Answered}
    \cup {ForcedPackshot(ba, br, d, ar) :
            ba \in Answers, br \in BgResponses, d \in BOOLEAN,
            ar \in {PlainAnswer, <<"http_422", NoPayload>>}}
    \cup {Request("shadow", TRUE, "Original", TRUE, 1, ar) : ar \in Answered}
    \cup {Request("erase", m, "Original", TRUE, 1, ar) :
            m \in BOOLEAN, ar \in Answered}
    \cup {Request("lifestyle", TRUE, "Original", s, n, ar) :
            s \in BOOLEAN, n \in 1..LifestyleMaxResults, ar \in Answered}
    \cup {Request("lifestyle", g, p, s, 1, PlainAnswer) :
            g \in BOOLEAN, p \in PlacementTypes, s \in BOOLEAN}
    \cup {Request("fill", TRUE, "Original", s, n, ar) :
            s \in BOOLEAN, n \in 1..FillMaxResults, ar \in Answered}
    \cup {Request("fill", FALSE, "Original", s, 1, PlainAnswer) :
            s \in BOOLEAN}

\* What the handler of req.op does on req.
Handler(has_key, req) ==
    CASE req.op = "enhance" ->
           EnhanceHandler(has_key, req.complete, req.answer, req.variation)
      [] req.op = "hd_image" -> HdImageHandler(has_key, req.answer, req.resp)
      [] req.op = "packshot" ->
           PackshotHandler(has_key, req.force_rmbg, req.bg_answer,
                           req.bg_resp, req.download_ok, req.answer, req.resp)
      [] req.op = "shadow" -> ShadowHandler(has_key, req.answer, req.resp)
      [] req.op = "erase" ->
           EraseHandler(has_key, req.complete, req.answer, req.resp)
      [] req.op = "lifestyle" ->
           LifestyleHandler(has_key, req.complete, req.placement,
                            req.sync_mode, req.n, req.answer, req.resp)
      [] req.op = "fill" ->
           FillHandler(has_key, req.complete, TRUE, req.sync_mode, req.n,
                       req.answer, req.resp)

\* The handler of the clicked button runs on the form and the answer of
\* request.
Handle ==
    /\ ~handled
    /\ Script(Handler(HasKey, request))
    /\ handled' = TRUE
    /\ UNCHANGED request

HandleEnhance ==
    /\ request.op = "enhance"
    /\ Handle

HandleHdImage ==
    /\ request.op = "hd_image"
    /\ Handle

HandlePackshot ==
    /\ request.op = "packshot"
    /\ Handle

HandleShadow ==
    /\ request.op = "shadow"
    /\ Handle

HandleErase ==
    /\ request.op = "erase"
    /\ Handle

HandleLifestyle ==
    /\ request.op = "lifestyle"
    /\ Handle

HandleFill ==
    /\ request.op = "fill"
    /\ Handle

\* The sessions a run starts from: a fresh one, one whose last submission
\* left a URL pending, and one that holds results and pending URLs.
StartSessions ==
    {[pending |-> <<>>, edited |-> None, generated |-> <<>>],
     [pending |-> <<1>>, edited |-> None, generated |-> <<>>],
     [pending |-> <<1, MaxUrls>>, edited |-> 1, generated |-> <<1, MaxUrls>>]}

RunInit ==
    /\ \E s \in StartSessions :
         /\ pending_urls = s.pending
         /\ edited_image = s.edited
         /\ generated_images = s.generated
    /\ pc = "idle"
    /\ attempt = 0
    /\ ready_images = <<>>
    /\ polled = {}
    /\ passes = 0
    /\ last_pass = <<>>
    /\ recovered = {}
    /\ ok_first = {}
    /\ ok_later = {}
    /\ sleeps = 0
    /\ auto_result = "none"
    /\ refresh_rendered = FALSE
    /\ raised = FALSE
    /\ api_key \in {NoKey, BriaKey}
    /\ enhanced_prompt = "none"
    /\ messages = {}
    /\ api_calls = 0
    /\ last_answer = "none"
    /\ client_calls = 0
    /\ request \in Requests
    /\ api_key = NoKey => request.resp \in {NoPayload, PlainAnswer[2]}
    /\ handled = FALSE
    /\ environ = [BRIA_API_KEY |-> api_key, LTX |-> NoKey,
                  GOOGLE_API_KEY |-> NoKey, FAL_KEY |-> NoKey]
    /\ fal_api_key = NoKey
    /\ google_api_key = NoKey
    /\ credential = NoCredential
    /\ video_requests = <<>>
    /\ FreshPrompts
    /\ OneSession

RunNext ==
    \/ HandleEnhance
    \/ HandleHdImage
    \/ HandlePackshot
    \/ HandleShadow
    \/ HandleErase
    \/ HandleLifestyle
    \/ HandleFill

\* Each handler on each request, from each of the sessions.
RunSpec == RunInit /\ [][RunNext]_vars

(***************************************************************************)
(* Properties of the poller                                                *)
(***************************************************************************)

\* The auto loop of the last submission has returned.
AutoLoopDone == pc = "idle" /\ auto_result # "none"

\* This step ran a polling pass.
PassRan == passes' = passes + 1

\* This step ran a polling pass in which u answered 200.
Got200(u) ==
    /\ PassRan
    /\ u \in DOMAIN last_pass'
    /\ last_pass'[u] = "200"

\* C1: when the URLs of R answer 200 on the first HEAD and every other
\* polled URL answers non-200 on every attempt of the auto loop, then after
\* the loop the ready set is exactly R and the pending set is exactly the
\* other URLs.
C1_AutoLoopSplitsReadyFromPending ==
    (AutoLoopDone /\ (polled \ ok_first) \cap ok_later = {})
    => /\ Range(ready_images) = ok_first
       /\ Range(pending_urls) = polled \ ok_first

\* C1 witness: three URLs polled, one ready on the first HEAD, the two
\* others left pending.
C1_Witness ==
    /\ AutoLoopDone
    /\ Cardinality(polled) = 3
    /\ Cardinality(ok_first) = 1
    /\ Range(ready_images) = ok_first
    /\ Cardinality(Range(pending_urls)) = 2

\* C2: a HEAD that raises on an attempt is swallowed: no exception leaves
\* check_generated_images, the URL stays pending for that pass, the other
\* URLs of the pass are still classified, and a URL that raised on one
\* attempt and answers 200 on the next is reported ready there.
C2_TransientErrorSwallowed ==
    /\ ~raised
    /\ \A u \in recovered :
         /\ passes >= 2
         /\ u \in Range(ready_images)
         /\ u \notin Range(pending_urls)
         /\ auto_result = "True"
    /\ \A u \in DOMAIN last_pass :
         last_pass[u] = "exception" =>
            /\ u \in Range(pending_urls)
            /\ \A v \in DOMAIN last_pass :
                 /\ v \in Range(ready_images) <=> last_pass[v] = "200"
                 /\ v \in Range(pending_urls) <=> last_pass[v] # "200"

\* C2 witness: an exception on attempt 1, 200 on attempt 2, reported ready,
\* with another URL in the same pass.
C2_Witness ==
    /\ passes = 2
    /\ \E u \in recovered :
         /\ last_pass[u] = "200"
         /\ u \in Range(ready_images)
         /\ DOMAIN last_pass # {u}
    /\ auto_result = "True"

\* C3: a polling pass partitions the pending set: each URL pending before
\* the pass is afterwards reported ready exactly when it answered 200 and
\* is still pending exactly when it did not; the pass adds no URL.
C3_PassPartitionsPending ==
    passes > 0 =>
        /\ \A u \in DOMAIN last_pass :
             /\ u \in Range(ready_images) <=> last_pass[u] = "200"
             /\ u \in Range(pending_urls) <=> last_pass[u] # "200"
        /\ Range(pending_urls) \subseteq DOMAIN last_pass
        /\ Range(ready_images) \subseteq DOMAIN last_pass
        /\ Len(ready_images) + Len(pending_urls) = Cardinality(DOMAIN last_pass)

\* C3 witness: one pass over three URLs with a 200, another status and an
\* exception.
C3_Witness ==
    /\ passes > 0
    /\ \E u, v, w \in DOMAIN last_pass :
         /\ last_pass[u] = "200" /\ last_pass[v] = "other"
         /\ last_pass[w] = "exception"
         /\ u \in Range(ready_images)
         /\ {v, w} \subseteq Range(pending_urls)

\* C4: one invocation of auto_check_images makes at most 3 polling passes,
\* each preceded by one sleep, returns whether something became ready, and
\* always returns.
C4_AutoLoopBoundedAndTerminates ==
    /\ [](/\ passes <= 3
          /\ attempt <= 3
          /\ sleeps = passes
          /\ AutoLoopDone => (auto_result = "True" <=> ready_images # <<>>))
    /\ ((pc = "auto") ~> (pc = "idle"))

\* C4 witness: the loop gave up after its third pass.
C4_Witness ==
    /\ pc = "idle"
    /\ auto_result = "False"
    /\ passes = 3
    /\ sleeps = 3

\* The first URL, in pending order, that answered 200 in the pass.
RECURSIVE FirstReady(_, _)
FirstReady(pending, outcomes) ==
    IF pending = <<>> THEN None
    ELSE IF outcomes[Head(pending)] = "200" THEN Head(pending)
    ELSE FirstReady(Tail(pending), outcomes)

\* C5 as claimed: every URL found ready by a pass is removed from the
\* pending set and is the session's current result.
C5_EveryReadyUrlIsCurrentResult ==
    [][PassRan =>
         \A u \in Range(pending_urls) : Got200(u) =>
            /\ u \notin Range(pending_urls')
            /\ edited_image' = u]_vars

\* C5 amended: every URL found ready by a pass is removed from the pending
\* set; the first of them in pending order becomes the current result, and
\* when several are ready in the same pass all of them are stored, in
\* pending order, in generated_images.
C5_ReadyRemovedFirstIsCurrentResult ==
    [][PassRan =>
         LET ready == SelectSeq(pending_urls, LAMBDA u : Got200(u))
         IN  /\ \A u \in Range(ready) : u \notin Range(pending_urls')
             /\ ready # <<>> =>
                  edited_image' = FirstReady(pending_urls, last_pass')
             /\ Len(ready) > 1 => generated_images' = ready]_vars

\* C5 witness: two URLs became ready in one pass; the first is the current
\* result and both are in generated_images.
C5_Witness ==
    /\ passes > 0
    /\ Cardinality({u \in DOMAIN last_pass : last_pass[u] = "200"}) >= 2
    /\ Len(ready_images) >= 2
    /\ edited_image = ready_images[1]
    /\ generated_images = ready_images

\* C6: polling never drops a job that has not succeeded: across a polling
\* pass, the end of the auto loop and a click on the refresh button, every
\* pending URL that did not answer 200 in that step is still pending.
C6_PollingNeverDropsUnready ==
    [][(pc = "auto" \/ ClickRefresh) =>
         \A u \in Range(pending_urls) :
            u \in Range(pending_urls') \/ Got200(u)]_vars

\* C6 witness: a URL that never answered 200 in the three attempts is still
\* pending after the loop, while another one left on success.
C6_Witness ==
    /\ AutoLoopDone
    /\ passes = 3
    /\ \E u \in Range(pending_urls) : u \notin ok_first \cup ok_later
    /\ ready_images # <<>>

\* C7 as claimed: a pending URL leaves the pending set only in a step in
\* which it is found ready (the session offers no dismissal of a pending
\* image URL).
C7_PendingLeavesOnlyOnSuccess ==
    [][\A u \in Range(pending_urls) :
          u \in Range(pending_urls') \/ Got200(u)]_vars

\* C8 as claimed: a click on the rendered refresh button, with URLs still
\* pending, runs a polling pass over them.
C8_ManualRecheckRunsAPass ==
    [][(ClickRefresh /\ pending_urls # <<>>) => PassRan]_vars

(***************************************************************************)
(* Properties of the handlers                                              *)
(***************************************************************************)

\* This step is a run whose handler submitted its form: it got as far as
\* the request to the backend.
Submitted == pc = "idle" /\ last_answer' # "none"

\* This step is a run whose request the backend failed.
RequestFailed == pc = "idle" /\ last_answer' \in Answers \ {"ok"}

\* The run showed the missing credential as an error.
AuthErrorShown ==
    \E m \in messages : m[1] = "error" /\ m[2] \in {"auth", "missing_api_key"}

\* The run showed the content moderation warning.
ModerationShown == <<"warning", "moderation">> \in messages

\* The run showed an error message.
GenericFailureShown == \E m \in messages : m[1] = "error"

\* C9 as claimed: whatever the operation, a submission made while no
\* credential is set shows an authentication error and sends no request to
\* the backend.
C9_NoCredentialNoCall ==
    [][(Submitted /\ api_key = NoKey) =>
         (api_calls' = 0 /\ AuthErrorShown')]_vars

\* C10 as claimed: whatever the operation, a request that fails with HTTP
\* 422 shows the moderation rejection, and a request that fails with another
\* status or a transport error shows the generic failure and no moderation
\* rejection.
C10_ModerationDistinguished ==
    [][RequestFailed =>
         IF last_answer' = "http_422"
         THEN ModerationShown'
         ELSE GenericFailureShown' /\ ~ModerationShown']_vars

(***************************************************************************)
(* Properties of single handler runs                                       *)
(***************************************************************************)

\* The backend answered the request of the run under study with a payload.
GotPayload == HasKey /\ request.answer = "ok"

\* The payload of the run under study is a dict that has key.
Carries(key) == request.resp.type = "dict" /\ key \in request.resp.keys

\* C11: a "Create Packshot" run with force_rmbg unchecked calls an API
\* client function exactly once; when the response contains result_url,
\* edited_image becomes that URL, pending_urls keeps its value and no
\* polling starts.
C11_PackshotCallsOnceAndSetsResult ==
    [][(HandlePackshot /\ ~request.force_rmbg) =>
         /\ client_calls' = 1
         /\ (GotPayload /\ Carries("result_url")) =>
               /\ edited_image' = request.resp.result_url
               /\ pending_urls' = pending_urls
               /\ pc' = "idle"]_vars

\* A packshot answered with {"result_url": 2} in a session that held
\* another result and two pending URLs.
C11_Witness ==
    /\ handled
    /\ request.op = "packshot"
    /\ ~request.force_rmbg
    /\ GotPayload
    /\ Carries("result_url")
    /\ request.resp.result_url = 2
    /\ edited_image = 2
    /\ pending_urls = <<1, MaxUrls>>
    /\ client_calls = 1

\* The run under study is a lifestyle submission with sync_mode False whose
\* arguments reach the client.
AsyncLifestyle ==
    /\ request.op = "lifestyle"
    /\ request.complete
    /\ ~ArgumentsRaise(request.placement)
    /\ ~request.sync_mode

\* C12: an asynchronous lifestyle run with num_results = N whose response
\* has a "urls" list of more than N entries assigns the first N of them, in
\* order, to pending_urls and enters auto_check_images, at its first
\* attempt, for these URLs.
C12_AsyncLifestyleKeepsFirstN ==
    [][(HandleLifestyle /\ AsyncLifestyle /\ GotPayload /\ Carries("urls")
          /\ Len(request.resp.urls) > request.n) =>
         /\ pending_urls' = SubSeq(request.resp.urls, 1, request.n)
         /\ pc' = "auto"
         /\ attempt' = 0
         /\ passes' = 0
         /\ sleeps' = 0
         /\ polled' = {request.resp.urls[i] : i \in 1..request.n}]_vars

\* num_results = 2 and {"urls": [1, 2, 3]}: 1 and 2 are pending, 3 is not.
C12_Witness ==
    /\ handled
    /\ AsyncLifestyle
    /\ GotPayload
    /\ Carries("urls")
    /\ request.n = 2
    /\ Len(request.resp.urls) = 3
    /\ pending_urls = <<request.resp.urls[1], request.resp.urls[2]>>
    /\ pc = "auto"
    /\ passes = 0

\* C13: wherever a handler stores a list of result URLs of a response that
\* holds the list "urls" (in pending_urls or in generated_images), it
\* stores the first min(num_results, Len(urls)) of them, in order.
C13_StoredUrlsAreFirstMin ==
    [][((HandleLifestyle \/ HandleFill) /\ request.complete /\ GotPayload
          /\ Carries("urls")) =>
         /\ pending_urls' # pending_urls =>
              pending_urls' = Take(request.resp.urls, request.n)
         /\ generated_images' # generated_images =>
              generated_images' = Take(request.resp.urls, request.n)]_vars

\* The URL a response offers under key: its result_url, the first of its
\* result_urls or urls, or the first URL of the items of its result list;
\* None when the key is absent or holds no URL.
Offered(resp, key) ==
    IF resp.type # "dict" \/ key \notin resp.keys THEN None
    ELSE CASE key = "result_url" -> resp.result_url
           [] key = "result_urls" ->
                IF resp.result_urls = <<>> THEN None ELSE resp.result_urls[1]
           [] key = "urls" -> IF resp.urls = <<>> THEN None ELSE resp.urls[1]
           [] key = "result" ->
                IF resp.result_is_list THEN ScanItems(resp.result).url
                ELSE None

\* The stated order of the keys.
KeyOrder == <<"result_url", "result_urls", "urls", "result">>

\* The first key of KeyOrder, from position i on, that resp has.
RECURSIVE FirstPresent(_, _)
FirstPresent(resp, i) ==
    IF i > Len(KeyOrder) THEN "none"
    ELSE IF KeyOrder[i] \in resp.keys THEN KeyOrder[i]
    ELSE FirstPresent(resp, i + 1)

\* Every key resp has offers a URL.
AllPopulated(resp) == \A key \in resp.keys : Offered(resp, key) # None

\* The run under study is a synchronous one of Generate Images or of the
\* lifestyle shot, answered with a dict.
SyncExtraction ==
    /\ GotPayload
    /\ request.resp.type = "dict"
    /\ \/ request.op = "hd_image"
       \/ /\ request.op = "lifestyle"
          /\ request.complete
          /\ ~ArgumentsRaise(request.placement)
          /\ request.sync_mode

\* C14: when the response of a synchronous run carries several of the keys
\* result_url, result_urls, urls, result, each with a URL, edited_image
\* becomes the URL of the first of them in that order.
C14_HighestPriorityKeyWins ==
    [][((HandleHdImage \/ HandleLifestyle) /\ SyncExtraction
          /\ Cardinality(request.resp.keys) >= 2
          /\ AllPopulated(request.resp)) =>
         edited_image' =
            Offered(request.resp, FirstPresent(request.resp, 1))]_vars

\* The handlers that take result URLs out of a response; those with a
\* sync_mode switch.
ExtractingOps ==
    {"hd_image", "packshot", "shadow", "lifestyle", "fill", "erase"}

SwitchedOps == {"lifestyle", "fill"}

\* The URL(s) a handler selected.
Selected(eff) ==
    [edited |-> eff.edited, generated |-> eff.generated,
     pending |-> eff.pending]

\* C15: the URL(s) a handler selects from a response depend on the
\* response, on sync_mode and on num_results only: every other handler
\* selects the same from the same response (with sync_mode False, every
\* other handler that has the switch).
C15_ExtractionSameForEveryKind ==
    (handled /\ request.op \in ExtractingOps /\ GotPayload
       /\ request.complete /\ ~request.force_rmbg
       /\ ~ArgumentsRaise(request.placement)) =>
      \A op \in IF request.sync_mode THEN ExtractingOps ELSE SwitchedOps :
         Selected(Handler(HasKey, [request EXCEPT !.op = op]))
            = Selected(Handler(HasKey, request))

\* The first key of KeyOrder, from position i on, under which resp offers a
\* URL.
RECURSIVE FirstPopulated(_, _)
FirstPopulated(resp, i) ==
    IF i > Len(KeyOrder) THEN "none"
    ELSE IF Offered(resp, KeyOrder[i]) # None THEN KeyOrder[i]
    ELSE FirstPopulated(resp, i + 1)

\* C16: when the response of a synchronous run offers a URL under
\* result_url, result_urls or in its result list (and has no "urls" key),
\* edited_image becomes the URL of the first of these that offers one and
\* the run reports success; a key that is present and empty is passed over.
C16_EmptyKeySkipped ==
    [][((HandleHdImage \/ HandleLifestyle) /\ SyncExtraction
          /\ "urls" \notin request.resp.keys
          /\ FirstPopulated(request.resp, 1) # "none") =>
         /\ edited_image' =
               Offered(request.resp, FirstPopulated(request.resp, 1))
         /\ <<"success", "generated">> \in messages']_vars

\* The run showed that the response holds no result.
NoValidResultShown ==
    \E about \in {"no_valid_format", "no_result"} :
        <<"error", about>> \in messages

\* C17: when the backend answers with a non-empty dict that has none of
\* the keys result_url, result_urls, urls, result, the run shows a "no
\* valid result" error and no exception leaves the handler; for every
\* handler that extracts results, with sync_mode True and False.
C17_NoKnownKeyShowsError ==
    (handled /\ request.op \in ExtractingOps /\ GotPayload
       /\ request.complete /\ ~request.force_rmbg
       /\ ~ArgumentsRaise(request.placement)
       /\ request.resp.type = "dict"
       /\ request.resp.keys = {}) =>
      (NoValidResultShown /\ ~raised)

\* The backend failed the request of the run under study.
RemoteCallFailed == handled /\ last_answer \in Answers \ {"ok"}

\* C18: whenever the remote call of a handler fails, the run shows an error
\* message, no exception leaves main, and the script is back at rest, where
\* the same button can be clicked again.
C18_RemoteErrorsShownNotRaised ==
    RemoteCallFailed => (GenericFailureShown /\ ~raised /\ pc = "idle")

(***************************************************************************)
(* Properties of the keys                                                  *)
(***************************************************************************)

\* The key the session holds for a backend, and the one of the
\* environment.
SessionKey(backend) ==
    CASE backend = "primary" -> api_key
      [] backend = "fal" -> fal_api_key
      [] backend = "google" -> google_api_key

EnvironKey(backend) ==
    CASE backend = "primary" -> environ.BRIA_API_KEY
      [] backend = "fal" -> environ.LTX
      [] backend = "google" -> environ.GOOGLE_API_KEY

\* C19: the key of a client call is the key the session holds for that
\* backend whenever it holds one, and the key of the environment only when
\* the session holds none.
C19_SessionKeyWins ==
    credential.backend # "none" =>
      credential.key = IF SessionKey(credential.backend) # NoKey
                       THEN SessionKey(credential.backend)
                       ELSE EnvironKey(credential.backend)

(***************************************************************************)
(* Properties of the result holders                                        *)
(***************************************************************************)

\* The result holders of the session that hold something.
Populated ==
    (IF edited_image # None THEN {"edited_image"} ELSE {})
    \cup (IF generated_images # <<>> THEN {"generated_images"} ELSE {})
    \cup (IF pending_urls # <<>> THEN {"pending_urls"} ELSE {})

\* C20: in every state of the session exactly one of edited_image,
\* generated_images and pending_urls is populated.
C20_ExactlyOneHolderPopulated == Cardinality(Populated) = 1

(***************************************************************************)
(* Properties of the video tab                                             *)
(***************************************************************************)

\* This step is a run that called a client function of the fal.ai backend.
FalClientCalled == credential'.backend = "fal"

\* C21: a call of an API client function changes nothing but the network;
\* in particular a run that calls a client function of the video backend
\* leaves the environment variables (FAL_KEY among them) as they were.
C21_ClientCallLeavesEnvironment ==
    [][FalClientCalled => environ' = environ]_vars

\* The "Generate Video" click under study gets as far as
\* generate_video_from_image.
FalSubmission ==
    /\ request.op = "video"
    /\ request.f.has_prompt
    /\ request.f.provider = "fal.ai"
    /\ HasImageSource(request.f, edited_image # None)
    /\ FalKeyAtSubmit(environ, SidebarKey(fal_api_key, environ.LTX, NoKey))
          # NoKey
    /\ request.f.upload => request.f.upload_ok

\* C23: a video submission with sync False whose fal_client.submit returns
\* comes back with the request id, whatever becomes of the job, and the run
\* appends exactly one entry (request id, model id, prompt, timestamp) to
\* video_requests; a submission with sync True shows the final result (the
\* video when the result has a URL) and leaves video_requests as it was.
C23_AsyncSubmissionAddsOneRequest ==
    [][(HandleGenerateVideo /\ FalSubmission /\ request.f.outcome # "raise") =>
         IF request.f.sync_mode
         THEN /\ video_requests' = video_requests
              /\ <<"success", "video">> \in messages'
                    <=> request.f.outcome \in {"video_url", "url"}
         ELSE /\ video_requests' =
                    Append(video_requests,
                           [request_id |-> request.f.id,
                            model |-> request.f.model,
                            prompt |-> VideoPrompt,
                            timestamp |-> Now])
              /\ <<"info", "video_started">> \in messages']_vars

\* An asynchronous submission of model Minimax answered with request id 1,
\* in a session that already held one pending request: it is the second
\* entry.
C23_Witness ==
    /\ handled
    /\ FalSubmission
    /\ ~request.f.sync_mode
    /\ request.f.outcome = "video_url"
    /\ request.f.id = 1
    /\ request.f.model = Minimax
    /\ Len(video_requests) = 2
    /\ video_requests[1] = PendingVideos[1]
    /\ video_requests[2].request_id = 1
    /\ video_requests[2].model = Minimax
    /\ <<"info", "video_started">> \in messages

\* C24: "Get Result" on the request at position i removes exactly that
\* entry of video_requests, and only when the call returned a result with
\* video.url; otherwise, on any error, and for every "Check Status", the
\* list keeps its value.
C24_OnlyGetResultWithVideoRemoves ==
    [][/\ HandleCheckStatus => video_requests' = video_requests
       /\ HandleGetResult =>
            IF client_calls' = 1 /\ request.outcome = "video_url"
            THEN /\ Len(video_requests') = Len(video_requests) - 1
                 /\ \A j \in 1..Len(video_requests') :
                      video_requests'[j] =
                         video_requests[IF j < request.i THEN j ELSE j + 1]
            ELSE video_requests' = video_requests]_vars

\* "Get Result" on the last of the pending requests, whose video is ready:
\* the entries before it are left.
C24_Witness ==
    /\ handled
    /\ request.op = "result"
    /\ request.i = MaxVideoRequests
    /\ request.outcome = "video_url"
    /\ client_calls = 1
    /\ video_requests = SubSeq(PendingVideos, 1, MaxVideoRequests - 1)
    /\ <<"success", "video_ready">> \in messages

(***************************************************************************)
(* Properties of several sessions                                          *)
(***************************************************************************)

\* C22: with two sessions interleaving in one process, the video backend
\* call of a session is made with the credential that session passed, never
\* with the one another session supplied.
C22_CallUsesOwnCredential ==
    \A s \in Sessions :
        fal_calls[s].used # NoKey => fal_calls[s].used = fal_calls[s].api_key

(***************************************************************************)
(* More properties of the poller                                           *)
(***************************************************************************)

\* This step ran a polling pass in which some URL answered 200.
FoundReady == \E u \in Range(pending_urls) : Got200(u)

\* C25: auto_check_images returns at the first pass in which a URL is
\* ready, whatever the number of passes made: the URLs that were not ready
\* in that pass stay pending, and no further pass runs in that invocation.
C25_LoopStopsAtFirstReadyPass ==
    [][/\ (PassRan /\ FoundReady) =>
            /\ pc' = "idle"
            /\ auto_result' = "True"
            /\ \A u \in Range(pending_urls) :
                  ~Got200(u) => u \in Range(pending_urls')
       /\ (pc = "idle" /\ pc' = "idle") => ~PassRan]_vars

\* The first pass found one of three URLs ready: the loop returned after
\* that pass and the two others are pending.
C25_Witness ==
    /\ pc = "idle"
    /\ auto_result = "True"
    /\ passes = 1
    /\ Len(ready_images) = 1
    /\ Len(pending_urls) = 2
    /\ \A u \in Range(pending_urls) : last_pass[u] # "200"

\* C26: no ready result is lost: every URL that a polling pass of the
\* current submission found ready is held by the session, as edited_image
\* or in generated_images.
C26_ReadyResultsAreHeld ==
    (ok_first \cup ok_later) \subseteq
        ({edited_image} \cup Range(generated_images))

\* A pass found nothing, the next found two URLs ready: both are in
\* generated_images and the first is the current result.
C26_Witness ==
    /\ passes = 2
    /\ ok_first = {}
    /\ Cardinality(ok_later) = 2
    /\ edited_image \in ok_later
    /\ ok_later \subseteq Range(generated_images)
    /\ pending_urls # <<>>

(***************************************************************************)
(* More properties of single handler runs                                  *)
(***************************************************************************)

\* The client call of the run under study raised, or its response holds no
\* result: none of its keys offers a URL.
NoResult ==
    \/ ~HasKey
    \/ request.answer # "ok"
    \/ \A key \in RespKeys : Offered(request.resp, key) = None

\* C27: a run of the packshot, lifestyle or generative fill handler whose
\* client call raised or whose response holds no result leaves
\* edited_image, generated_images and pending_urls as they were.
C27_FailedActionLeavesHolders ==
    [][((HandlePackshot \/ HandleLifestyle \/ HandleFill) /\ NoResult) =>
         UNCHANGED <<edited_image, generated_images, pending_urls>>]_vars

\* The request of the run under study fails, its response does not parse,
\* or the parsed response lacks "prompt variations".
EnhanceFails ==
    \/ request.answer # "ok"
    \/ request.variation \in {"not_json", "not_dict", "absent"}

\* What enhance_prompt returns to the run under study.
Enhanced == EnhancePromptClient(request.answer, request.variation)

\* C28: enhance_prompt never raises, so the except block of the "Enhance
\* Prompt" handler is never entered; when the request fails, the response
\* does not parse or has no "prompt variations", it returns the prompt it
\* was given, which the handler stores as enhanced_prompt.
C28_EnhancePromptNeverRaises ==
    (handled /\ request.op = "enhance" /\ request.complete) =>
        /\ Enhanced.exc = "none"
        /\ ~GenericFailureShown
        /\ EnhanceFails =>
              (Enhanced.value = "prompt" /\ enhanced_prompt = "prompt")

\* The backend answered with an error status: the prompt came back and was
\* stored, with the success message.
C28_Witness ==
    /\ handled
    /\ request.op = "enhance"
    /\ request.complete
    /\ request.answer = "http_error"
    /\ enhanced_prompt = "prompt"
    /\ <<"success", "enhanced">> \in messages

\* C29: whatever the placement type, a click on "Generate Lifestyle Shot"
\* with a prompt (or a reference image) gets as far as the call of the API
\* client function.
C29_EveryPlacementReachesClient ==
    [][(HandleLifestyle /\ request.complete) => client_calls' = 1]_vars

(***************************************************************************)
(* Properties of the prompt                                                *)
(***************************************************************************)

\* C30: an enhanced_prompt the session holds was made of the text stored
\* as original_prompt, and whatever a run displayed as the enhanced prompt
\* or sent to generation in its place was made of the text entered in that
\* run: when the entered text differs from the stored one, enhanced_prompt
\* is reset first.
C30_EnhancedPromptIsOfOriginal ==
    /\ enhanced_prompt # "none" => enhanced_of = original_prompt
    /\ \A e \in exposed : e.of = e.entered

\* The prompt enhanced was "prompt A"; the user entered "prompt B": the
\* enhanced prompt is gone and the run displayed none.
C30_Witness ==
    /\ enhanced_of = "prompt A"
    /\ original_prompt = "prompt B"
    /\ enhanced_prompt = "none"
    /\ exposed = {}

=============================================================================
